---- MODULE Spec2Model ----
(***************************************************************************)
(* A model of dbus_objects/__init__.py: the member descriptors (method,    *)
(* property, signal), the per-type member lists they register themselves   *)
(* in, and the DBusObject instance operations (enumeration, server         *)
(* registration, signal emission).                                         *)
(*                                                                         *)
(* Python values are modelled as strings and tuples of strings:            *)
(*   a type is its name, an instance is its identity ("o1"),               *)
(*   a descriptor is <<owner, attribute name>>,                            *)
(*   a list object is <<type that created it, kind>>,                      *)
(*   a function is <<"func", owner, attribute name>>.                      *)
(***************************************************************************)
EXTENDS Integers, Sequences, FiniteSets, TLC

\* ------------------------------------------------------------------ bounds
\* Total number of member declarations over all class statements.
MaxDecl == 3
\* Longest emission-callback list of one instance.
MaxCallbacks == 3
\* Longest input or output signature of a method.
MaxSlots == 2

\* ------------------------------------------------------------ value pools
NoneVal == "<None>"
\* Python truthiness of an Optional[str].
Falsy(x) == x \in {NoneVal, ""}

\* The class statements of a program: T, its subtype S, an unrelated U, and X,
\* which is not a DBusObject.
TypeIds == {"T", "S", "U", "X"}
Base == [T |-> "DBusObject", S |-> "T", U |-> "DBusObject", X |-> "object"]
Kinds == {"method", "property", "signal"}
AttrNames == {"alpha", "beta"}
ObjIds == {"o1", "o2"}
Roots == {NoneVal, "", "com.example"}
DeclaredInterfaces == {NoneVal, "org.explicit"}
DBusNames == {"Thing", "Other"}
Values == {"v1", "v2"}
SetterFns == {<<"setfn", "f1">>, <<"setfn", "f2">>}
Servers == {"srvA", "srvNoEmit"}
Paths == {"/a", "/b"}

\* A reference that is None, and a class attribute a class does not define itself.
NoneRef == <<>>
Absent == <<"absent">>
Missing == <<"missing">>

VARIABLES
    phase,      \* per class statement: "undefined", "defining", "defined"
    attr,       \* per type and kind: the type's own _dbus_<kind>s attribute
    heap,       \* list objects: ref -> sequence of <<attribute name, descriptor>>
    desc,       \* descriptor objects: descriptor -> its fields
    objs,       \* DBusObject instances: identity -> its fields
    gen,        \* the get_dbus_properties generator being consumed
    last,       \* what the most recent operation did and returned
    declared,   \* history: the declarations made, in order
    resolved,   \* history: descriptors on which register_interface succeeded
    attached    \* history: the <<descriptor, fn>> of every setter(fn) call

vars == <<phase, attr, heap, desc, objs, gen, last, declared, resolved, attached>>

\* The record of one operation: its name, what it was applied to, how it ended
\* ("ok" or the exception raised), what it returned, the user functions and
\* callbacks it called (in order), and how many log lines / warnings it emitted.
Did(op, subject, outcome, value, calls, notes) ==
    [op |-> op, subject |-> subject, outcome |-> outcome, value |-> value,
     calls |-> calls, notes |-> notes, children |-> <<>>]

\* ---------------------------------------------------------------- helpers
RECURSIVE IsDBusObject(_)
\* issubclass(obj_type, DBusObject)
IsDBusObject(t) ==
    IF t = "DBusObject" THEN TRUE
    ELSE IF t \in TypeIds THEN IsDBusObject(Base[t])
    ELSE FALSE

RECURSIVE GetListAttr(_, _, _)
\* getattr(type, '_dbus_<kind>s'): the first definition along the MRO;
\* DBusObject itself defines None.
GetListAttr(a, t, k) ==
    IF t \notin TypeIds THEN NoneRef
    ELSE IF a[t][k] # Absent THEN a[t][k]
    ELSE GetListAttr(a, Base[t], k)

\* The entries of the list a type (or an instance of it) sees for a kind.
ListOf(t, k) ==
    LET r == GetListAttr(attr, t, k) IN IF r = NoneRef THEN <<>> ELSE heap[r]

RECURSIVE Lookup(_, _)
\* Attribute lookup of a declared member along the MRO.
Lookup(t, n) ==
    IF t \notin TypeIds THEN Missing
    ELSE IF <<t, n>> \in DOMAIN desc THEN <<t, n>>
    ELSE Lookup(Base[t], n)

RECURSIVE AncestorsOrSelf(_)
AncestorsOrSelf(t) ==
    IF t \notin TypeIds THEN {} ELSE {t} \cup AncestorsOrSelf(Base[t])

\* The signature of no parameters.
EmptySig == [types |-> <<>>, names |-> <<>>]

\* dbus_objects.signature.dbus_case on the attribute names of the pool.
DbusCase(n) ==
    CASE n = "alpha" -> "Alpha"
      [] n = "beta" -> "Beta"
      [] OTHER -> n

\* The descriptor's function (self._func); a signal has none.
FuncOf(d) == <<"func", d[1], d[2]>>

\* ------------------------------------------------------------ descriptors
\* _DBusDescriptorBase.__init__ and the subclasses' __init__, then the part of
\* __set_name__ that names the descriptor.
NewDescriptor(t, n, k, io, insig, outsig) ==
    [kind |-> k,
     owner |-> t,
     descriptor_name |-> n,
     interface_orig |-> io,
     interface |-> io,
     name |-> DbusCase(n),
     input_signature |-> insig,
     output_signature |-> outsig,
     setter |-> NoneRef]

\* The list object __set_name__ appends to: the one the owner already sees, or a
\* new one when that is None or empty.
OwnerList(t, k) ==
    LET cur == GetListAttr(attr, t, k) IN
    IF cur = NoneRef THEN <<t, k>>
    ELSE IF heap[cur] = <<>> THEN <<t, k>>
    ELSE cur

\* _DBusDescriptorBase.__set_name__ for the descriptor bound to attribute n in
\* the body of class t.
SetName(t, n, k, io, insig, outsig) ==
    /\ phase[t] # "defined"
    /\ \A u \in TypeIds \ {t} : phase[u] # "defining"
    /\ Base[t] \in TypeIds => phase[Base[t]] = "defined"
    /\ <<t, n>> \notin DOMAIN desc
    /\ Len(declared) < MaxDecl
    /\ IF ~IsDBusObject(t)
       THEN /\ last' = Did("set_name", <<t, n>>, "DBusObjectException", NoneRef, <<>>, 0)
            /\ UNCHANGED <<phase, attr, heap, desc, objs, gen, declared, resolved, attached>>
       ELSE LET r == OwnerList(t, k)
                old == IF r \in DOMAIN heap /\ r = GetListAttr(attr, t, k)
                       THEN heap[r] ELSE <<>>
            IN /\ attr' = [attr EXCEPT ![t][k] = r]
               /\ heap' = [x \in DOMAIN heap \cup {r} |->
                              IF x = r THEN Append(old, <<n, <<t, n>>>>) ELSE heap[x]]
               /\ desc' = [x \in DOMAIN desc \cup {<<t, n>>} |->
                              IF x = <<t, n>> THEN NewDescriptor(t, n, k, io, insig, outsig) ELSE desc[x]]
               /\ declared' = Append(declared, <<t, n, k>>)
               /\ phase' = [phase EXCEPT ![t] = "defining"]
               /\ last' = Did("set_name", <<t, n>>, "ok", NoneRef, <<>>, 0)
               /\ UNCHANGED <<objs, gen, resolved, attached>>

\* The attribute a class body binds next, when its members are named in order.
NextName(t) == IF <<t, "alpha">> \notin DOMAIN desc THEN "alpha" ELSE "beta"

\* The output signature of a member whose return type is str (a property) or
\* None.
ReturnSig(k) ==
    IF k = "property" THEN [types |-> <<"s">>, names |-> <<>>]
    ELSE [types |-> <<>>, names |-> <<>>]

\* The class statements of a program text that defines T, S, U and X in this
\* order: t may be defined once the ones before it are.
ClassOrder == <<"T", "S", "U", "X">>
InOrder(t) ==
    \A i, j \in DOMAIN ClassOrder :
        (ClassOrder[j] = t /\ i < j /\ IsDBusObject(ClassOrder[i]))
            => phase[ClassOrder[i]] = "defined"

\* The class statement of t completes (after the __set_name__ calls of its body).
FinishClass(t) ==
    /\ phase[t] # "defined"
    /\ IsDBusObject(t)
    /\ \A u \in TypeIds \ {t} : phase[u] # "defining"
    /\ Base[t] \in TypeIds => phase[Base[t]] = "defined"
    /\ phase' = [phase EXCEPT ![t] = "defined"]
    /\ last' = Did("class", <<t>>, "ok", NoneRef, <<>>, 0)
    /\ UNCHANGED <<attr, heap, desc, objs, gen, declared, resolved, attached>>

\* The identity of the next instance created.
FreshObj ==
    IF "o1" \notin DOMAIN objs THEN "o1"
    ELSE IF "o2" \notin DOMAIN objs THEN "o2"
    ELSE "none"

\* DBusObject.__init__: dn is the DBus name (dbus_case of the name argument or
\* of the type's name), root the default_interface_root argument.
NewObject(t, dn, root) ==
    /\ FreshObj \in ObjIds
    /\ phase[t] = "defined"
    /\ objs' = [x \in DOMAIN objs \cup {FreshObj} |->
                   IF x = FreshObj
                   THEN [type |-> t, dbus_name |-> dn, default_interface_root |-> root,
                         emit_signal_callbacks |-> <<>>, attrs |-> {}]
                   ELSE objs[x]]
    /\ last' = Did("init", <<FreshObj>>, "ok", NoneRef, <<>>, 0)
    /\ UNCHANGED <<phase, attr, heap, desc, gen, declared, resolved, attached>>


\* One call of a user function or callback: the callable, its first argument
\* (the instance, or the signal descriptor) and the rest.
Call(fn, self, arg) == [fn |-> fn, self |-> self, arg |-> arg]

\* _DBusDescriptorBase.interface (the getter)
InterfaceGet(dr) ==
    IF Falsy(dr.interface) THEN <<"ValueError">> ELSE <<"ok", dr.interface>>

\* register_interface testing the cached _interface instead of the declared
\* one: an interface resolved once is never resolved again.
RegisterInterfaceCached(dr, ob) ==
    IF Falsy(dr.interface)
    THEN IF ~Falsy(ob.default_interface_root)
         THEN [outcome |-> "ok",
               interface |-> ob.default_interface_root \o "." \o ob.dbus_name]
         ELSE [outcome |-> "DBusObjectException", interface |-> dr.interface]
    ELSE [outcome |-> "ok", interface |-> dr.interface]

\* register_interface joining the interface before it looks at the root.
RegisterInterfaceAssignFirst(dr, ob) ==
    IF Falsy(dr.interface_orig)
    THEN [outcome |-> IF ~Falsy(ob.default_interface_root) THEN "ok"
                      ELSE "DBusObjectException",
          interface |-> ob.default_interface_root \o "." \o ob.dbus_name]
    ELSE [outcome |-> "ok", interface |-> dr.interface]

\* _DBusDescriptorBase.register_interface(obj) on descriptor record dr, for the
\* instance record ob: how it ends and the descriptor's _interface afterwards.
RegisterInterface(dr, ob) ==
    IF Falsy(dr.interface_orig)
    THEN IF ~Falsy(ob.default_interface_root)
         THEN [outcome |-> "ok",
               interface |-> ob.default_interface_root \o "." \o ob.dbus_name]
         ELSE [outcome |-> "DBusObjectException", interface |-> dr.interface]
    ELSE [outcome |-> "ok", interface |-> dr.interface]

\* The descriptors after register_interface(obj) on d.
AfterRegister(ds, d, o) ==
    [ds EXCEPT ![d].interface = RegisterInterface(ds[d], objs[o]).interface]

\* descriptor.register_interface(obj), called directly.
DoRegisterInterface(d, o) ==
    /\ d \in DOMAIN desc
    /\ o \in DOMAIN objs
    /\ LET r == RegisterInterface(desc[d], objs[o]) IN
       /\ desc' = AfterRegister(desc, d, o)
       /\ resolved' = IF r.outcome = "ok" THEN resolved \cup {d} ELSE resolved
       /\ last' = Did("register_interface", d \o <<o>>, r.outcome, NoneRef, <<>>, 0)
    /\ UNCHANGED <<phase, attr, heap, objs, gen, declared, attached>>

\* _DBusMethodBase.__get__(obj, type) with an instance
MethodGet(ds, d, o) ==
    LET r == RegisterInterface(ds[d], objs[o]) IN
    [outcome |-> r.outcome,
     value |-> IF r.outcome = "ok" THEN <<"bound">> \o FuncOf(d) \o <<o>> ELSE NoneRef,
     calls |-> <<>>,
     desc |-> AfterRegister(ds, d, o),
     registered |-> IF r.outcome = "ok" THEN {d} ELSE {}]

\* _DBusProperty.__get__(obj, type) with an instance: the function is called.
PropertyGet(ds, d, o) ==
    [outcome |-> "ok",
     value |-> <<"retval">> \o FuncOf(d) \o <<o>>,
     calls |-> <<Call(FuncOf(d), <<o>>, <<>>)>>,
     desc |-> ds,
     registered |-> {}]

\* _DBusSignal.__get__(obj, type) with an instance: the emit callback.
SignalGet(ds, d, o) ==
    LET r == RegisterInterface(ds[d], objs[o]) IN
    [outcome |-> r.outcome,
     value |-> IF r.outcome = "ok" THEN <<"emit_signal", d[1], d[2], o>> ELSE NoneRef,
     calls |-> <<>>,
     desc |-> AfterRegister(ds, d, o),
     registered |-> IF r.outcome = "ok" THEN {d} ELSE {}]

\* getattr(obj, n) for a member name: a property (a data descriptor) first, then
\* the instance's own attribute, then a method or signal of the type.
GetAttrOf(ds, o, n) ==
    LET d == Lookup(objs[o].type, n) IN
    IF d # Missing /\ ds[d].kind = "property" THEN PropertyGet(ds, d, o)
    ELSE IF \E a \in objs[o].attrs : a[1] = n
    THEN [outcome |-> "ok",
          value |-> <<"attr", (CHOOSE a \in objs[o].attrs : a[1] = n)[2]>>,
          calls |-> <<>>, desc |-> ds, registered |-> {}]
    ELSE IF d = Missing
    THEN [outcome |-> "AttributeError", value |-> NoneRef, calls |-> <<>>,
          desc |-> ds, registered |-> {}]
    ELSE IF ds[d].kind = "method" THEN MethodGet(ds, d, o)
    ELSE SignalGet(ds, d, o)

\* obj.n
GetAttr(o, n) ==
    /\ o \in DOMAIN objs
    /\ LET r == GetAttrOf(desc, o, n) IN
       /\ desc' = r.desc
       /\ resolved' = resolved \cup r.registered
       /\ last' = Did("getattr", <<o, n>>, r.outcome, r.value, r.calls, 0)
    /\ UNCHANGED <<phase, attr, heap, objs, gen, declared, attached>>

\* __get__(None, type) of the three descriptor classes.
ClassGetOf(d) ==
    CASE desc[d].kind = "method" ->
            [outcome |-> "ok", value |-> FuncOf(d), calls |-> <<>>]
      [] desc[d].kind = "property" ->
            [outcome |-> "ok", value |-> <<"retval">> \o FuncOf(d) \o <<NoneVal>>,
             calls |-> <<Call(FuncOf(d), <<NoneVal>>, <<>>)>>]
      [] OTHER ->
            IF Falsy(desc[d].interface_orig)
            THEN [outcome |-> "AttributeError", value |-> NoneRef, calls |-> <<>>]
            ELSE [outcome |-> "ok", value |-> <<"emit_signal", d[1], d[2], NoneVal>>,
                  calls |-> <<>>]

\* Type.n: the member accessed through the type, with no instance.
ClassGetAttr(t, n) ==
    /\ phase[t] = "defined"
    /\ Lookup(t, n) # Missing
    /\ LET r == ClassGetOf(Lookup(t, n)) IN
       last' = Did("class_getattr", <<t, n>>, r.outcome, r.value, r.calls, 0)
    /\ UNCHANGED <<phase, attr, heap, desc, objs, gen, declared, resolved, attached>>

\* ------------------------------------------------------------ enumeration
RECURSIVE Enumerate(_, _, _, _, _, _, _)
\* The loop of get_dbus_methods / get_dbus_signals, consumed to its end: one
\* getattr(self, name) per entry, each yielding (accessor, descriptor); an
\* exception of getattr ends the generator and reaches the consumer.
Enumerate(ds, o, entries, i, yielded, calls, registered) ==
    IF i > Len(entries)
    THEN [outcome |-> "ok", yielded |-> yielded, calls |-> calls, desc |-> ds,
          registered |-> registered]
    ELSE LET r == GetAttrOf(ds, o, entries[i][1]) IN
         IF r.outcome # "ok"
         THEN [outcome |-> r.outcome, yielded |-> yielded, calls |-> calls \o r.calls,
               desc |-> r.desc, registered |-> registered \cup r.registered]
         ELSE Enumerate(r.desc, o, entries, i + 1,
                        Append(yielded, <<r.value, entries[i][2]>>),
                        calls \o r.calls, registered \cup r.registered)

\* list(obj.get_dbus_methods()) and list(obj.get_dbus_signals())
GetDbusMembers(o, k) ==
    /\ o \in DOMAIN objs
    /\ k \in {"method", "signal"}
    /\ LET r == Enumerate(desc, o, ListOf(objs[o].type, k), 1, <<>>, <<>>, {}) IN
       /\ desc' = r.desc
       /\ resolved' = resolved \cup r.registered
       /\ last' = Did("get_dbus_" \o k \o "s", <<o>>, r.outcome, r.yielded, r.calls, 0)
    /\ UNCHANGED <<phase, attr, heap, objs, gen, declared, attached>>

\* obj.get_dbus_properties(): the generator object; no code of it has run yet.
PropsStart(o) ==
    /\ o \in DOMAIN objs
    /\ gen' = [obj |-> o, state |-> "created", list |-> NoneRef, pos |-> 0,
               property_name |-> NoneVal, triples |-> <<>>]
    /\ last' = Did("get_dbus_properties", <<o>>, "ok", NoneRef, <<>>, 0)
    /\ UNCHANGED <<phase, attr, heap, desc, objs, declared, resolved, attached>>

\* The list get_dbus_properties iterates: bound when the generator first runs.
GenList ==
    IF gen.state = "created" THEN GetListAttr(attr, objs[gen.obj].type, "property")
    ELSE gen.list

\* next(generator): run to the next yield. The loop variable property_name is
\* assigned before register_interface; the yielded lambdas close over it.
PropsNext ==
    /\ gen # NoneRef
    /\ gen.state \in {"created", "running"}
    /\ LET r == GenList
           entries == IF r = NoneRef THEN <<>> ELSE heap[r]
       IN IF gen.pos >= Len(entries)
          THEN /\ gen' = [gen EXCEPT !.state = "done", !.list = r]
               /\ last' = Did("next", <<gen.obj>>, "StopIteration", NoneRef, <<>>, 0)
               /\ UNCHANGED <<desc, resolved>>
          ELSE LET e == entries[gen.pos + 1]
                   reg == RegisterInterface(desc[e[2]], objs[gen.obj])
               IN /\ desc' = AfterRegister(desc, e[2], gen.obj)
                  /\ IF reg.outcome = "ok"
                     THEN /\ gen' = [gen EXCEPT !.state = "running", !.list = r,
                                                !.pos = gen.pos + 1,
                                                !.property_name = e[1],
                                                !.triples = Append(gen.triples, e[2])]
                          /\ resolved' = resolved \cup {e[2]}
                          /\ last' = Did("next", <<gen.obj>>, "ok", e[2], <<>>, 0)
                     ELSE /\ gen' = [gen EXCEPT !.state = "raised", !.list = r,
                                                !.property_name = e[1]]
                          /\ resolved' = resolved
                          /\ last' = Did("next", <<gen.obj>>, reg.outcome, NoneRef, <<>>, 0)
    /\ UNCHANGED <<phase, attr, heap, objs, declared, attached>>

\* The name the lambdas of a yielded triple read when they are called.
ClosureName(g, i) == g.property_name

\* The getter of the i-th yielded triple: lambda: getattr(self, property_name)
CallGetter(i) ==
    /\ gen # NoneRef
    /\ i \in 1..Len(gen.triples)
    /\ LET r == GetAttrOf(desc, gen.obj, ClosureName(gen, i)) IN
       /\ desc' = r.desc
       /\ resolved' = resolved \cup r.registered
       /\ last' = Did("getter", gen.triples[i], r.outcome, r.value, r.calls, 0)
    /\ UNCHANGED <<phase, attr, heap, objs, gen, declared, attached>>

\* __set__ that ignores a write when no setter is attached.
PropertySetSilent(dr, o, v) ==
    IF dr.setter = NoneRef
    THEN [outcome |-> "ok", calls |-> <<>>]
    ELSE [outcome |-> "ok", calls |-> <<Call(dr.setter, <<o>>, <<v>>)>>]

\* _DBusProperty.__set__(obj, value)
PropertySet(dr, o, v) ==
    IF dr.setter = NoneRef
    THEN [outcome |-> "AttributeError", calls |-> <<>>]
    ELSE [outcome |-> "ok", calls |-> <<Call(dr.setter, <<o>>, <<v>>)>>]

\* setattr(obj, n, v): a property's __set__, else the instance's own attribute.
SetAttrOf(o, n, v) ==
    LET d == Lookup(objs[o].type, n) IN
    IF d # Missing /\ desc[d].kind = "property"
    THEN LET r == PropertySet(desc[d], o, v) IN
         [outcome |-> r.outcome, calls |-> r.calls, objs |-> objs]
    ELSE [outcome |-> "ok", calls |-> <<>>,
          objs |-> [objs EXCEPT ![o].attrs =
                       {a \in objs[o].attrs : a[1] # n} \cup {<<n, v>>}]]

\* obj.n = v
SetAttr(o, n, v) ==
    /\ o \in DOMAIN objs
    /\ LET r == SetAttrOf(o, n, v) IN
       /\ objs' = r.objs
       /\ last' = Did("setattr", <<o, n>>, r.outcome, <<v>>, r.calls, 0)
    /\ UNCHANGED <<phase, attr, heap, desc, gen, declared, resolved, attached>>

\* The setter of the i-th yielded triple:
\* lambda value: setattr(self, property_name, value)
CallSetter(i, v) ==
    /\ gen # NoneRef
    /\ i \in 1..Len(gen.triples)
    /\ LET r == SetAttrOf(gen.obj, ClosureName(gen, i), v) IN
       /\ objs' = r.objs
       /\ last' = Did("setter", gen.triples[i], r.outcome, <<v>>, r.calls, 0)
    /\ UNCHANGED <<phase, attr, heap, desc, gen, declared, resolved, attached>>

\* setter(fn) that drops a setter attached before instead of replacing it.
SetterAttachToggle(dr, fn) == IF dr.setter = NoneRef THEN fn ELSE NoneRef

\* The descriptor's _setter after descriptor.setter(fn).
SetterAttach(dr, fn) == fn

\* _DBusProperty.setter(fn): returns the descriptor.
Setter(d, fn) ==
    /\ d \in DOMAIN desc
    /\ desc[d].kind = "property"
    /\ desc' = [desc EXCEPT ![d].setter = SetterAttach(desc[d], fn)]
    /\ attached' = attached \cup {<<d, fn>>}
    /\ last' = Did("setter_decorator", d, "ok", d, <<>>, 0)
    /\ UNCHANGED <<phase, attr, heap, objs, gen, declared, resolved>>

\* ------------------------------------------------------------ signatures
\* A DBusSignature: its type codes and its argument names (<<>> when it has
\* none). Supplied names are as many as the types.
TypeCodes == {"i", "s"}
ArgNames == {"x", "y"}
SeqsUpTo(S, n) == UNION {[1..m -> S] : m \in 0..n}
Signatures ==
    {[types |-> ts, names |-> ns] :
        ts \in SeqsUpTo(TypeCodes, MaxSlots), ns \in SeqsUpTo(ArgNames, MaxSlots)}
WellFormed(sig) == sig.names = <<>> \/ Len(sig.names) = Len(sig.types)
WellFormedSignatures == {g \in Signatures : WellFormed(g)}

\* bool(signature): a signature object, of however few slots, is true.
SigTruthy(sig) == Len(sig.types) >= 0

RECURSIVE Concat(_)
Concat(ss) == IF ss = <<>> THEN "" ELSE Head(ss) \o Concat(Tail(ss))
\* str(signature)
SigStr(sig) == Concat(sig.types)

Longest(a, b) == IF Len(a) >= Len(b) THEN Len(a) ELSE Len(b)
\* itertools.zip_longest(a, b), None filling the shorter one
ZipLongest(a, b) ==
    [i \in 1..Longest(a, b) |->
        <<IF i <= Len(a) THEN a[i] ELSE NoneVal, IF i <= Len(b) THEN b[i] ELSE NoneVal>>]

\* The arg children built with zip, which stops at the shorter sequence.
ArgChildrenZip(direction, sig) ==
    LET m == IF Len(sig.names) <= Len(sig.types) THEN Len(sig.names) ELSE Len(sig.types) IN
    [i \in 1..m |-> <<direction, sig.types[i], sig.names[i]>>]

\* The arg children of one direction: <<direction, type, name>>, the name
\* NoneVal when the element carries no name attribute.
ArgChildren(direction, sig) ==
    LET z == ZipLongest(sig.names, sig.types) IN
    [i \in DOMAIN z |-> <<direction, z[i][2], IF Falsy(z[i][1]) THEN NoneVal ELSE z[i][1]>>]

\* _DBusMethod.xml
MethodXml(dr) ==
    IF ~SigTruthy(dr.input_signature) \/ ~SigTruthy(dr.output_signature)
    THEN [outcome |-> "ValueError", value |-> NoneRef, children |-> <<>>]
    ELSE [outcome |-> "ok", value |-> <<"method", dr.name>>,
          children |-> ArgChildren("in", dr.input_signature)
                       \o ArgChildren("out", dr.output_signature)]

\* The access attribute of a property element.
AccessMode(dr) == IF dr.setter = NoneRef THEN "read" ELSE "readwrite"

\* _DBusProperty.xml
PropertyXml(dr) ==
    IF ~SigTruthy(dr.input_signature) \/ ~SigTruthy(dr.output_signature)
    THEN [outcome |-> "ValueError", value |-> NoneRef, children |-> <<>>]
    ELSE [outcome |-> "ok",
          value |-> <<"property", dr.name, SigStr(dr.output_signature), AccessMode(dr)>>,
          children |-> <<>>]

\* descriptor.xml of a method or property
Xml(d) ==
    /\ d \in DOMAIN desc
    /\ desc[d].kind \in {"method", "property"}
    /\ LET r == IF desc[d].kind = "method" THEN MethodXml(desc[d])
                ELSE PropertyXml(desc[d])
       IN last' = [Did("xml", d, r.outcome, r.value, <<>>, 0) EXCEPT !.children = r.children]
    /\ UNCHANGED <<phase, attr, heap, desc, objs, gen, declared, resolved, attached>>

\* --------------------------------------------------------------- signals
\* Whether server.emit_signal_callback is set.
ServerEmits(s) == s # "srvNoEmit"

\* register_server without the test of the server's emission capability.
RegisterServerNoCheck(ob, s, p) ==
    IF ListOf(ob.type, "signal") = <<>>
    THEN [callbacks |-> ob.emit_signal_callbacks, warnings |-> 0]
    ELSE [callbacks |-> Append(ob.emit_signal_callbacks, <<s, p>>), warnings |-> 0]

\* The callback list after DBusObject.register_server(server, path), and the
\* number of warnings issued.
RegisterServerOf(ob, s, p) ==
    IF ListOf(ob.type, "signal") = <<>>
    THEN [callbacks |-> ob.emit_signal_callbacks, warnings |-> 0]
    ELSE IF ~ServerEmits(s)
    THEN [callbacks |-> ob.emit_signal_callbacks, warnings |-> 1]
    ELSE [callbacks |-> Append(ob.emit_signal_callbacks, <<s, p>>), warnings |-> 0]

\* obj.register_server(server, path)
RegisterServer(o, s, p) ==
    /\ o \in DOMAIN objs
    /\ Len(objs[o].emit_signal_callbacks) < MaxCallbacks
    /\ LET r == RegisterServerOf(objs[o], s, p) IN
       /\ objs' = [objs EXCEPT ![o].emit_signal_callbacks = r.callbacks]
       /\ last' = Did("register_server", <<o, s, p>>, "ok", NoneRef, <<>>, r.warnings)
    /\ UNCHANGED <<phase, attr, heap, desc, gen, declared, resolved, attached>>

RECURSIVE EmitLoop(_, _, _, _, _, _, _)
RECURSIVE EmitLoopNoCatch(_, _, _, _, _, _, _)
\* emit_signal without its try/except: the first failing callback ends the loop.
EmitLoopNoCatch(cbs, i, d, body, raising, calls, ends) ==
    IF i > Len(cbs)
    THEN [outcome |-> "ok", calls |-> calls, ends |-> ends]
    ELSE IF i \in raising
    THEN [outcome |-> "Exception",
          calls |-> Append(calls, Call(<<"callback">> \o cbs[i], d, body)),
          ends |-> Append(ends, "raised")]
    ELSE EmitLoopNoCatch(cbs, i + 1, d, body, raising,
                         Append(calls, Call(<<"callback">> \o cbs[i], d, body)),
                         Append(ends, "returned"))

\* The body of emit_signal: callback(self, body=args) for each callback of the
\* owner, an exception of a callback (those at the positions in raising) caught
\* and logged. ends: how each call ended, "raised" (and logged) or "returned".
EmitLoop(cbs, i, d, body, raising, calls, ends) ==
    IF i > Len(cbs)
    THEN [outcome |-> "ok", calls |-> calls, ends |-> ends]
    ELSE EmitLoop(cbs, i + 1, d, body, raising,
                  Append(calls, Call(<<"callback">> \o cbs[i], d, body)),
                  Append(ends, IF i \in raising THEN "raised" ELSE "returned"))

\* The signal descriptor obj.n resolves to, Missing when n is no signal of the
\* instance's type (or an instance attribute hides it).
SignalNamed(o, n) ==
    LET d == Lookup(objs[o].type, n) IN
    IF d = Missing THEN Missing
    ELSE IF desc[d].kind # "signal" THEN Missing
    ELSE IF \E a \in objs[o].attrs : a[1] = n THEN Missing
    ELSE d

\* obj.n(*body) for a signal n: the emit callback is obtained by attribute
\* access (_DBusSignal.__get__, which registers the interface) and then called.
EmitSignal(o, n, body, raising) ==
    /\ o \in DOMAIN objs
    /\ raising \subseteq 1..Len(objs[o].emit_signal_callbacks)
    /\ SignalNamed(o, n) # Missing
    /\ RegisterInterface(desc[SignalNamed(o, n)], objs[o]).outcome = "ok"
    /\ LET d == SignalNamed(o, n)
           r == EmitLoop(objs[o].emit_signal_callbacks, 1, d, body, raising, <<>>, <<>>)
           logged == Cardinality({i \in DOMAIN r.ends : r.ends[i] = "raised"})
       IN /\ desc' = AfterRegister(desc, d, o)
          /\ resolved' = resolved \cup {d}
          /\ last' = [Did("emit_signal", <<o>> \o d, r.outcome, body, r.calls, logged)
                         EXCEPT !.children = r.ends]
    /\ UNCHANGED <<phase, attr, heap, objs, gen, declared, attached>>

Init ==
    /\ phase = [t \in TypeIds |-> "undefined"]
    /\ attr = [t \in TypeIds |-> [k \in Kinds |-> Absent]]
    /\ heap = <<>>
    /\ desc = <<>>
    /\ objs = <<>>
    /\ gen = NoneRef
    /\ last = Did("start", NoneRef, "ok", NoneRef, <<>>, 0)
    /\ declared = <<>>
    /\ resolved = {}
    /\ attached = {}


\* Interface resolution: one type T with members of every kind, instances with
\* and without a default interface root.
Next ==
    \/ \E k \in Kinds, io \in DeclaredInterfaces :
          SetName("T", NextName("T"), k, io, EmptySig, ReturnSig(k))
    \/ FinishClass("T")
    \/ \E dn \in DBusNames, root \in Roots : NewObject("T", dn, root)
    \/ \E o \in DOMAIN objs, n \in AttrNames : GetAttr(o, n)
    \/ \E n \in AttrNames : ClassGetAttr("T", n)
    \/ \E d \in DOMAIN desc, o \in ObjIds : DoRegisterInterface(d, o)
    \/ \E o \in DOMAIN objs, k \in {"method", "signal"} : GetDbusMembers(o, k)
    \/ \E o \in DOMAIN objs : PropsStart(o)
    \/ PropsNext

Spec == Init /\ [][Next]_vars

\* Member lists: every class statement, members of every kind, instances that
\* enumerate them.
NextDecl ==
    \/ \E t \in TypeIds, n \in AttrNames, k \in Kinds :
          InOrder(t) /\ SetName(t, n, k, NoneVal, EmptySig, ReturnSig(k))
    \/ \E t \in TypeIds : InOrder(t) /\ FinishClass(t)
    \/ \E t \in TypeIds : "o1" \notin DOMAIN objs /\ NewObject(t, "Thing", "com.example")
    \/ \E o \in DOMAIN objs, k \in {"method", "signal"} : GetDbusMembers(o, k)
    \/ \E o \in DOMAIN objs : PropsStart(o)
    \/ PropsNext

SpecDecl == Init /\ [][NextDecl]_vars

\* Properties: a type with properties, setters attached at any time, reads,
\* writes, introspection and the triples of get_dbus_properties.
NextProps ==
    \/ SetName("T", NextName("T"), "property", NoneVal, EmptySig, ReturnSig("property"))
    \/ FinishClass("T")
    \/ NewObject("T", "Thing", "com.example")
    \/ \E d \in DOMAIN desc, fn \in SetterFns : Setter(d, fn)
    \/ \E o \in DOMAIN objs, n \in AttrNames : GetAttr(o, n)
    \/ \E o \in DOMAIN objs, n \in AttrNames, v \in Values : SetAttr(o, n, v)
    \/ \E d \in DOMAIN desc : Xml(d)
    \/ \E o \in DOMAIN objs : PropsStart(o)
    \/ PropsNext
    \/ \E i \in 1..Cardinality(AttrNames) : CallGetter(i)
    \/ \E i \in 1..Cardinality(AttrNames), v \in Values : CallSetter(i, v)

SpecProps == Init /\ [][NextProps]_vars

\* Signals: a type T with and without signals, a subtype S that declares
\* nothing of its own, an instance attached to servers with and without an
\* emission capability, emission with failing callbacks.
NextSignals ==
    \/ \E k \in {"method", "signal"} :
          SetName("T", NextName("T"), k, NoneVal, EmptySig, ReturnSig(k))
    \/ \E t \in {"T", "S"} : FinishClass(t)
    \/ \E t \in {"T", "S"} : "o1" \notin DOMAIN objs /\ NewObject(t, "Thing", "com.example")
    \/ \E o \in DOMAIN objs, s \in Servers, p \in Paths : RegisterServer(o, s, p)
    \/ \E o \in DOMAIN objs, n \in AttrNames, body \in {<<>>, <<"v1">>} :
          \E raising \in SUBSET DOMAIN objs[o].emit_signal_callbacks :
              EmitSignal(o, n, body, raising)

SpecSignals == Init /\ [][NextSignals]_vars

\* Introspection of methods: one method of any well-formed input and output
\* signature.
NextXml ==
    \/ /\ <<"T", "alpha">> \notin DOMAIN desc
       /\ \E insig \in WellFormedSignatures, outsig \in WellFormedSignatures :
             SetName("T", "alpha", "method", NoneVal, insig, outsig)
    \/ FinishClass("T")
    \/ Xml(<<"T", "alpha">>)

SpecXml == Init /\ [][NextXml]_vars

\* ------------------------------------------------------------------ claims
\* The interface synthesized for instance o: root "." DBus object name.
Expected(o) == objs[o].default_interface_root \o "." \o objs[o].dbus_name
HasRoot(o) == ~Falsy(objs[o].default_interface_root)
Undeclared(d) == Falsy(desc[d].interface_orig)
Shadowed(o, n) == \E a \in objs[o].attrs : a[1] = n

\* C3: a member declared with no explicit interface, right after it is resolved
\* against an instance with default interface root R and DBus object name N
\* (attribute access for a method or signal, get_dbus_properties for a
\* property, register_interface directly, or an enumeration that resolves
\* several members), reads interface R.N; members resolved together against
\* one instance read the same interface.
C3_ResolvedInterface ==
    /\ last.op = "register_interface" =>
          LET d == <<last.subject[1], last.subject[2]>>
              o == last.subject[3]
          IN (Undeclared(d) /\ HasRoot(o)) =>
                /\ last.outcome = "ok"
                /\ InterfaceGet(desc[d]) = <<"ok", Expected(o)>>
    /\ last.op = "getattr" =>
          LET o == last.subject[1]
              d == Lookup(objs[o].type, last.subject[2])
          IN (/\ d # Missing
              /\ ~Shadowed(o, last.subject[2])
              /\ desc[d].kind \in {"method", "signal"}
              /\ Undeclared(d)
              /\ HasRoot(o)) =>
                /\ last.outcome = "ok"
                /\ InterfaceGet(desc[d]) = <<"ok", Expected(o)>>
    /\ (last.op = "next" /\ last.outcome # "StopIteration") =>
          LET o == last.subject[1] IN
          HasRoot(o) =>
             /\ last.outcome = "ok"
             /\ Undeclared(last.value) =>
                   InterfaceGet(desc[last.value]) = <<"ok", Expected(o)>>
    /\ last.op \in {"get_dbus_methods", "get_dbus_signals"} =>
          LET o == last.subject[1]
              k == IF last.op = "get_dbus_methods" THEN "method" ELSE "signal"
              l == ListOf(objs[o].type, k)
          IN HasRoot(o) =>
                /\ last.outcome = "ok"
                /\ \A i \in DOMAIN l :
                      Undeclared(l[i][2]) =>
                         InterfaceGet(desc[l[i][2]]) = <<"ok", Expected(o)>>

\* C3 witness: two methods declared without an interface, enumerated on an
\* instance with root com.example and name Thing, both read com.example.Thing.
C3_Witness ==
    /\ last.op = "get_dbus_methods"
    /\ last.outcome = "ok"
    /\ Len(last.value) = 2
    /\ \A i \in 1..2 :
          /\ Undeclared(last.value[i][2])
          /\ InterfaceGet(desc[last.value[i][2]]) = <<"ok", "com.example.Thing">>

\* C4, in every state: a member with no declared interface on which no
\* register_interface call has succeeded cannot be read: the getter fails.
C4_Unresolved ==
    \A d \in DOMAIN desc :
        (Undeclared(d) /\ d \notin resolved) => InterfaceGet(desc[d]) = <<"ValueError">>

\* C4, in every step: register_interface (called directly, or by the attribute
\* access of a method or signal) for a member with no declared interface
\* against an instance with no default interface root fails with the
\* declaration error and leaves the resolved interface as it was.
C4_FailedRegistration ==
    /\ last'.op = "register_interface" =>
          LET d == <<last'.subject[1], last'.subject[2]>>
              o == last'.subject[3]
          IN (Undeclared(d) /\ ~HasRoot(o)) =>
                /\ last'.outcome = "DBusObjectException"
                /\ desc'[d].interface = desc[d].interface
    /\ last'.op = "getattr" =>
          LET o == last'.subject[1]
              d == Lookup(objs[o].type, last'.subject[2])
          IN (/\ d # Missing
              /\ ~Shadowed(o, last'.subject[2])
              /\ desc[d].kind \in {"method", "signal"}
              /\ Undeclared(d)
              /\ ~HasRoot(o)) =>
                /\ last'.outcome = "DBusObjectException"
                /\ desc'[d].interface = desc[d].interface

\* C4: reading the interface of a member with no declared interface fails
\* until a register_interface call on it has succeeded, and a register_interface
\* against an instance without a default interface root fails with the
\* declaration error and leaves the resolved interface unchanged.
C4_InterfaceNotSet == []C4_Unresolved /\ [][C4_FailedRegistration]_vars

\* C4 witness: register_interface has just failed for want of a root, and the
\* interface of the member still cannot be read.
C4_Witness ==
    /\ last.op = "register_interface"
    /\ last.outcome = "DBusObjectException"
    /\ InterfaceGet(desc[<<last.subject[1], last.subject[2]>>]) = <<"ValueError">>

\* C5: accessing a declared method or property through the owning type, with
\* no instance, returns the raw underlying function and calls nothing.
C5_ClassAccessRaw ==
    last.op = "class_getattr" =>
       LET d == Lookup(last.subject[1], last.subject[2]) IN
       desc[d].kind \in {"method", "property"} =>
          /\ last.outcome = "ok"
          /\ last.value = FuncOf(d)
          /\ last.calls = <<>>

\* The entries of declaration history h a type sees for a kind: those declared
\* on the type or on a type it derives from, in declaration order.
DeclaredFor(t, k) ==
    LET Mine(e) == e[3] = k /\ e[1] \in AncestorsOrSelf(t)
        mine == SelectSeq(declared, Mine)
    IN [i \in DOMAIN mine |-> <<mine[i][2], <<mine[i][1], mine[i][2]>>>>]
Descriptors(entries) == [i \in DOMAIN entries |-> entries[i][2]]

\* C8: each member list of a type holds the members of that kind declared on
\* it (a subtype also sees those it inherits), once each and in declaration
\* order, the enumerations of an instance yield them in that order, and a
\* declaration on another type, a subtype included, adds nothing to them.
C8_MemberLists ==
    /\ \A t \in TypeIds, k \in Kinds : ListOf(t, k) = DeclaredFor(t, k)
    /\ last.op \in {"get_dbus_methods", "get_dbus_signals"} =>
          LET o == last.subject[1]
              k == IF last.op = "get_dbus_methods" THEN "method" ELSE "signal"
          IN /\ last.outcome = "ok"
             /\ Descriptors(last.value) = Descriptors(DeclaredFor(objs[o].type, k))
    /\ (gen # NoneRef /\ last.op = "next" /\ last.outcome = "StopIteration") =>
          gen.triples = Descriptors(DeclaredFor(objs[gen.obj].type, "property"))

\* C10: the getter and the setter of every triple get_dbus_properties has
\* yielded stay bound to that triple's property, however far the generator
\* has advanced since: the getter calls that property's function on the
\* instance, the setter that property's __set__.
C10_TriplesStayBound ==
    /\ last.op = "getter" =>
          /\ last.outcome = "ok"
          /\ last.calls = <<Call(FuncOf(last.subject), <<gen.obj>>, <<>>)>>
    /\ last.op = "setter" =>
          IF desc[last.subject].setter = NoneRef
          THEN last.outcome = "AttributeError" /\ last.calls = <<>>
          ELSE /\ last.outcome = "ok"
               /\ last.calls = <<Call(desc[last.subject].setter, <<gen.obj>>, last.value)>>

IsAttached(d) == \E a \in attached : a[1] = d
\* The property an assignment obj.n = v went to, Missing when n is none.
Assigned == Lookup(objs[last.subject[1]].type, last.subject[2])
WroteProperty ==
    /\ last.op = "setattr"
    /\ Assigned # Missing
    /\ desc[Assigned].kind = "property"

\* C6, in every state: the access mode a property's introspection reports is
\* readwrite when setter(fn) has been called on it and read otherwise; a write
\* with no setter attached fails with the no-setter error and calls nothing; a
\* write with one attached calls it once, with the instance and the value.
C6_AccessAndWrite ==
    /\ (last.op = "xml" /\ desc[last.subject].kind = "property") =>
          /\ last.outcome = "ok"
          /\ last.value[1] = "property"
          /\ last.value[4] = IF IsAttached(last.subject) THEN "readwrite" ELSE "read"
    /\ WroteProperty =>
          IF IsAttached(Assigned)
          THEN /\ last.outcome = "ok"
               /\ <<Assigned, desc[Assigned].setter>> \in attached
               /\ last.calls = <<Call(desc[Assigned].setter, <<last.subject[1]>>, last.value)>>
          ELSE /\ last.outcome = "AttributeError"
               /\ last.calls = <<>>

\* C6, in every step: a write that fails with the no-setter error changes
\* neither a descriptor nor an instance.
C6_FailedWriteFrame ==
    (last'.op = "setattr" /\ last'.outcome = "AttributeError") =>
        /\ desc' = desc
        /\ objs' = objs

\* C6: access mode readwrite exactly with a setter attached; writing without
\* one fails with the no-setter error and changes nothing; writing with one
\* calls it exactly once with the instance and the value.
C6_PropertyAccess == []C6_AccessAndWrite /\ [][C6_FailedWriteFrame]_vars

\* C6 witness: a write has just called the attached setter of one property
\* while another property of the type has none and reports read.
C6_Witness ==
    /\ WroteProperty
    /\ last.outcome = "ok"
    /\ Len(last.calls) = 1
    /\ \E d \in DOMAIN desc :
          /\ desc[d].kind = "property"
          /\ ~IsAttached(d)
          /\ PropertyXml(desc[d]).value[4] = "read"

\* C7, in every step: a descriptor that has a setter still has one, and its
\* access mode is readwrite.
C7_StaysAttached ==
    \A d \in DOMAIN desc :
        desc[d].setter # NoneRef =>
            /\ desc'[d].setter # NoneRef
            /\ PropertyXml(desc'[d]).value[4] = "readwrite"

\* C7, in every state: a property on which setter(fn) was ever called reports
\* readwrite, and a write to it does not fail with the no-setter error.
C7_NeverDetached ==
    /\ \A d \in DOMAIN desc :
          IsAttached(d) =>
             /\ desc[d].setter # NoneRef
             /\ PropertyXml(desc[d]).value[4] = "readwrite"
    /\ (WroteProperty /\ IsAttached(Assigned)) => last.outcome # "AttributeError"

\* C7: a setter, once attached, stays attached under every later operation
\* (more setter(fn) calls, reads, writes, enumeration, introspection): the
\* access mode never goes back to read and no write fails for want of a setter.
C7_SetterIsPermanent == []C7_NeverDetached /\ [][C7_StaysAttached]_vars

\* C7 witness: setter(fn) was called twice on a property, with two functions,
\* and a later write to it succeeded.
C7_Witness ==
    /\ WroteProperty
    /\ last.outcome = "ok"
    /\ Cardinality({a \in attached : a[1] = Assigned}) = 2

\* Whether a type has a signal: one declared on it or on a type it derives from.
HasSignal(t) ==
    \E i \in DOMAIN declared :
        declared[i][3] = "signal" /\ declared[i][1] \in AncestorsOrSelf(t)

\* C2, in every step: register_server(server, path) returns without raising;
\* it appends one callback bound to that server and path at the end of the
\* instance's list when the type has a signal and the server can emit, and
\* leaves the list as it was otherwise (warning when only the server cannot
\* emit).
C2_RegisterServerStep ==
    last'.op = "register_server" =>
        LET o == last'.subject[1]
            s == last'.subject[2]
            p == last'.subject[3]
            cbs == objs[o].emit_signal_callbacks
        IN /\ last'.outcome = "ok"
           /\ objs'[o].emit_signal_callbacks =
                 IF HasSignal(objs[o].type) /\ s # "srvNoEmit"
                 THEN Append(cbs, <<s, p>>) ELSE cbs
           /\ last'.notes = IF HasSignal(objs[o].type) /\ s = "srvNoEmit" THEN 1 ELSE 0

\* C2: register_server changes the callback list only by appending one
\* callback for the server and path, and only when the type has a signal and
\* the server an emission capability; k such attachments leave k callbacks in
\* attachment order.
C2_RegisterServer == [][C2_RegisterServerStep]_vars

\* C2 witness: two attachments with different paths have left two callbacks in
\* attachment order.
C2_Witness ==
    /\ last.op = "register_server"
    /\ objs[last.subject[1]].emit_signal_callbacks = <<<<"srvA", "/b">>, <<"srvA", "/a">>>>

\* C1: emitting a signal on an instance calls every callback of the instance's
\* list exactly once, in list order, with the signal descriptor and the
\* argument tuple as body, and returns normally, whichever callbacks raise.
C1_EmitReachesAll ==
    last.op = "emit_signal" =>
        LET o == last.subject[1]
            d == <<last.subject[2], last.subject[3]>>
            cbs == objs[o].emit_signal_callbacks
        IN /\ last.outcome = "ok"
           /\ Len(last.calls) = Len(cbs)
           /\ \A i \in DOMAIN cbs :
                 last.calls[i] = Call(<<"callback">> \o cbs[i], d, last.value)

\* C1 witness: of two callbacks the first raised and the second was still
\* called.
C1_Witness ==
    /\ last.op = "emit_signal"
    /\ Len(last.children) >= 2
    /\ last.children[1] = "raised"
    /\ last.children[2] = "returned"
    /\ Len(last.calls) = Len(last.children)

\* C9: the introspection element of a method with m input slots and n output
\* slots is a method element with m arg children of direction in followed by
\* n of direction out, the i-th of each group carrying the i-th type code and
\* the i-th name when the signature has names; an empty signature is no error.
C9_MethodXml ==
    (last.op = "xml" /\ desc[last.subject].kind = "method") =>
        LET ins == desc[last.subject].input_signature
            outs == desc[last.subject].output_signature
            m == Len(ins.types)
            n == Len(outs.types)
            NameAt(sig, i) == IF sig.names = <<>> THEN NoneVal ELSE sig.names[i]
        IN /\ last.outcome = "ok"
           /\ last.value[1] = "method"
           /\ Len(last.children) = m + n
           /\ \A i \in 1..m : last.children[i] = <<"in", ins.types[i], NameAt(ins, i)>>
           /\ \A j \in 1..n : last.children[m + j] = <<"out", outs.types[j], NameAt(outs, j)>>

\* C9 witness: a method of inputs (int, str) and a None return has two in
\* children and no out child.
C9_Witness ==
    /\ last.op = "xml"
    /\ desc[last.subject].input_signature.types = <<"i", "s">>
    /\ desc[last.subject].output_signature.types = <<>>
    /\ Len(last.children) = 2
    /\ \A i \in 1..2 : last.children[i][1] = "in"
====
